---- MODULE Spec2Model ----
(***************************************************************************)
(* Model of src/benchmark.py: the bounded-concurrency dispatcher           *)
(* (benchmark_service_threaded), the background resource sampler           *)
(* (ResourceMonitor) and the two-service comparison                        *)
(* (run_comparison_benchmark).                                             *)
(*                                                                         *)
(* Time is counted in whole seconds by the action Tick.  Numbers the code  *)
(* holds as floats are exact rationals [n |-> numerator, d |-> denominator]*)
(* with d > 0; latencies are whole milliseconds.                           *)
(***************************************************************************)
EXTENDS Integers, Sequences, FiniteSets, TLC

\* ------------------------------------------------------------------ bounds
\* num_requests ranges over 0..MaxRequests
MaxRequests == 2
\* with resource monitoring enabled, num_requests ranges over 0..MaxMonitoredRequests
MaxMonitoredRequests == 1
\* with resource monitoring enabled, max_workers ranges over 1..MaxMonitoredWorkers
MaxMonitoredWorkers == 1
\* max_workers ranges over 1..MaxWorkers
MaxWorkers == 2
\* a dispatch lasts at most MaxTime seconds of wall clock
MaxTime == 1
\* a sampler's list holds at most MaxSamples samples
MaxSamples == 2
\* longest list of values summarised in StatSpec, beyond the p99 threshold
MaxStatLen == 150
\* most processes in the process table of a tick in TickSpec
MaxProcs == 3
\* most results of one gather in AggSpec
MaxAggLen == 3
\* in SamplerSpec the sampler runs 0..MaxDuration seconds before it is stopped
MaxDuration == 4
\* in SamplerSpec the sampling interval ranges over 1..MaxInterval seconds
MaxInterval == 2
\* in WorkflowSpec a phase reports 0..MaxPhaseMs milliseconds
MaxPhaseMs == 2

\* ------------------------------------------------------- program constants
\* start_monitoring(interval=1.0): seconds slept between two ticks
Interval == 1
\* monitor_thread.join(timeout=2.0)
JoinTimeout == 2
\* latency = (time.time() - request_start) * 1000
MsPerSecond == 1000
\* len(latencies) > 20 selects statistics.quantiles(n=20)[18]
P95MinLen == 20
\* len(latencies) > 100 selects statistics.quantiles(n=100)[98]
P99MinLen == 100

Services == <<"python", "rust">>
ServiceSet == {"python", "rust"}

\* ----------------------------------------------------------- rationals
Rat(n, d) == [n |-> n, d |-> d]
Zero == Rat(0, 1)
RatEq(a, b) == a.n * b.d = b.n * a.d
RatPos(a) == a.n > 0
\* a / b for b > 0
RatDiv(a, b) == Rat(a.n * b.d, a.d * b.n)

\* the value of a float kept in lowest terms, for n >= 0 and d > 0
RECURSIVE Gcd(_, _)
Gcd(a, b) == IF b = 0 THEN a ELSE Gcd(b, a % b)

Norm(r) == LET g == Gcd(r.n, r.d) IN Rat(r.n \div g, r.d \div g)

\* a + b and a <= b
RatAdd(a, b) == Norm(Rat(a.n * b.d + b.n * a.d, a.d * b.d))
RatLe(a, b) == a.n * b.d <= b.n * a.d

\* ------------------------------------------------------- list primitives
\* sum(s), max(s), min(s)
RECURSIVE SumRange(_, _, _)
SumRange(s, lo, hi) ==
    IF lo > hi THEN 0
    ELSE IF lo = hi THEN s[lo]
    ELSE LET mid == (lo + hi) \div 2
         IN  SumRange(s, lo, mid) + SumRange(s, mid + 1, hi)

SumSeq(s) == SumRange(s, 1, Len(s))

Range(s) == { s[k] : k \in 1..Len(s) }

MaxSeq(s) == CHOOSE x \in Range(s) : \A y \in Range(s) : x >= y

MinSeq(s) == CHOOSE x \in Range(s) : \A y \in Range(s) : x <= y

\* sorted(data)
Unsorted(s) == s

Sorted(s) == SortSeq(s, LAMBDA a, b : a < b)

\* statistics.mean(data), data non-empty
Mean(s) == Rat(SumSeq(s), Len(s))

\* sum, statistics.mean and max of a non-empty list of floats
RECURSIVE SumFloats(_)
SumFloats(s) == IF s = <<>> THEN Zero ELSE RatAdd(Head(s), SumFloats(Tail(s)))

MeanFloats(s) == LET t == SumFloats(s) IN Norm(Rat(t.n, t.d * Len(s)))

MaxFloats(s) == CHOOSE x \in Range(s) : \A y \in Range(s) : RatLe(y, x)

\* statistics.median(data), data non-empty
MedianUpperMiddle(s) ==
    LET d == Sorted(s)
    IN  Rat(d[Len(d) \div 2 + 1], 1)

Median(s) ==
    LET d == Sorted(s)
        n == Len(d)
        i == n \div 2
    IN  IF n % 2 = 1 THEN Rat(d[i + 1], 1) ELSE Rat(d[i] + d[i + 1], 2)

\* statistics.quantiles(data, n=n)[i-1] with the default method 'exclusive'
QuantileNearestRank(s, n, i) ==
    LET d == Sorted(s)
        k == (i * Len(d) + n - 1) \div n
    IN  Rat(d[k], 1)

Quantile(s, n, i) ==
    LET d  == Sorted(s)
        ld == Len(d)
        m  == ld + 1
        j0 == (i * m) \div n
        j  == IF j0 < 1 THEN 1 ELSE IF j0 > ld - 1 THEN ld - 1 ELSE j0
        delta == i * m - j * n
    IN  Rat(d[j] * (n - delta) + d[j + 1] * delta, n)

\* "p95_latency_ms": quantiles(n=20)[18] if len > 20 else max if latencies else 0
P95(s) ==
    IF Len(s) > P95MinLen THEN Quantile(s, 20, 19)
    ELSE IF s # <<>> THEN Rat(MaxSeq(s), 1) ELSE Zero

\* "p99_latency_ms": quantiles(n=100)[98] if len > 100 else max if latencies else 0
P99(s) ==
    IF Len(s) > P99MinLen THEN Quantile(s, 100, 99)
    ELSE IF s # <<>> THEN Rat(MaxSeq(s), 1) ELSE Zero


\* ------------------------------------------------- process names and filters
\* a process name is the sequence of its characters
NamePython3 == <<"p","y","t","h","o","n","3">>
NameRustSvc == <<"r","u","s","t","-","g","r","a","p","h","f","l","o","w">>
NameBash    == <<"b","a","s","h">>

\* ResourceMonitor(["rust-graphflow", "target/release"]) and
\* ResourceMonitor(["python", "uvicorn", "main.py"])
Filters(s) ==
    IF s = "rust"
    THEN { <<"r","u","s","t","-","g","r","a","p","h","f","l","o","w">>,
           <<"t","a","r","g","e","t","/","r","e","l","e","a","s","e">> }
    ELSE { <<"p","y","t","h","o","n">>,
           <<"u","v","i","c","o","r","n">>,
           <<"m","a","i","n",".","p","y">> }

\* name in proc_name: substring test
IsSubstring(sub, str) ==
    \E k \in 0..(Len(str) - Len(sub)) :
        \A x \in 1..Len(sub) : str[k + x] = sub[x]

\* any(name in proc_name for name in self.process_names)
NameMatches(filters, procName) == \E f \in filters : IsSubstring(f, procName)

MiB == 1024 * 1024

\* an Optional value of the code: None is <<>>, a value x is <<x>>
None == <<>>
Some(x) == <<x>>

\* what psutil.process_iter can yield for one process: proc.info, or a failure
\* (fault) raised while the process is inspected
ProcRss(name, cpu, rss, fault) ==
    [name |-> name, cpu |-> cpu, rss |-> rss, threads |-> Some(1), fault |-> fault]

\* a process whose resident set is one MiB
Proc(name, cpu, fault) == ProcRss(name, cpu, MiB, fault)

\* line 69: proc.info['memory_info'].rss / (1024 * 1024), a true division
MemoryMb(rss) == Norm(Rat(rss, MiB))

\* the process tables the sampler meets in a comparison run: no process, no
\* matching process, one process of each service (idle with one MiB, then
\* busy with resident sets of 1.5 and 0.5 MiB), processes that cannot be
\* inspected, a process without a name
RunTables ==
    { <<>>,
      <<Proc(Some(NameBash), Some(1), "none")>>,
      <<Proc(Some(NamePython3), None, "none"), Proc(Some(NameRustSvc), None, "none")>>,
      <<ProcRss(Some(NamePython3), Some(1), 3 * (MiB \div 2), "none"),
        ProcRss(Some(NameRustSvc), Some(1), MiB \div 2, "none")>>,
      <<Proc(Some(NamePython3), Some(1), "NoSuchProcess"),
        Proc(Some(NameRustSvc), Some(1), "AccessDenied")>>,
      <<Proc(None, None, "none")>> }

\* x or 0
OrZero(x) == IF x = None THEN 0 ELSE x[1]

\* lines 59-77: the totals of one tick over the process table; err is set when
\* an exception other than NoSuchProcess/AccessDenied leaves the inner try
\* (`name in None` is a TypeError)
RECURSIVE TickTotalsFaultStops(_, _, _)
TickTotalsFaultStops(table, filters, acc) ==
    IF table = <<>> \/ acc.err THEN acc
    ELSE LET p == Head(table) IN
         IF p.fault # "none" THEN [acc EXCEPT !.err = TRUE]
         ELSE IF p.name = None THEN [acc EXCEPT !.err = TRUE]
         ELSE IF NameMatches(filters, p.name[1])
         THEN TickTotalsFaultStops(Tail(table), filters,
                  [acc EXCEPT !.cpu = @ + OrZero(p.cpu),
                              !.mem = RatAdd(@, MemoryMb(p.rss)),
                              !.threads = @ + OrZero(p.threads),
                              !.found = @ + 1])
         ELSE TickTotalsFaultStops(Tail(table), filters, acc)

RECURSIVE TickTotals(_, _, _)
TickTotals(table, filters, acc) ==
    IF table = <<>> \/ acc.err THEN acc
    ELSE LET p == Head(table) IN
         IF p.fault # "none" THEN TickTotals(Tail(table), filters, acc)
         ELSE IF p.name = None THEN [acc EXCEPT !.err = TRUE]
         ELSE IF NameMatches(filters, p.name[1])
         THEN TickTotals(Tail(table), filters,
                  [acc EXCEPT !.cpu = @ + OrZero(p.cpu),
                              !.mem = RatAdd(@, MemoryMb(p.rss)),
                              !.threads = @ + OrZero(p.threads),
                              !.found = @ + 1])
         ELSE TickTotals(Tail(table), filters, acc)

TickStart == [cpu |-> 0, mem |-> Zero, threads |-> 0, found |-> 0, err |-> FALSE]

\* ResourceMetrics(cpu_percent, memory_mb, threads)
ResourceMetrics(t) == [cpu_percent |-> t.cpu, memory_mb |-> t.mem, threads |-> t.threads]


\* --------------------------------------------------------- request results
\* what one task of asyncio.gather(..., return_exceptions=True) yields:
\* None (make_request caught a failure), an exception object, or a dict
ResNone == [kind |-> "none"]
ResExc == [kind |-> "exc"]
ResOk(latency, response) == [kind |-> "ok", latency |-> latency, response |-> response]

\* how one attempt ends
Outcomes == {"ok", "timeout", "transport", "bad_status", "bad_json"}

\* a response body is its task_times mapping, a set of <<phase, duration>> pairs
\* (empty when the body has no task_times)
PhaseNames == {"extract_questions", "research", "summarize", "generate_report"}
Responses == { { <<ph, 1>> : ph \in PhaseNames } }

\* lines 111-127: the value make_request returns for an outcome
RequestResult(outcome, age, response) ==
    IF outcome = "ok" THEN ResOk(age * MsPerSecond, response)
    ELSE IF outcome = "escaped" THEN ResExc
    ELSE ResNone

\* lines 141-148: the loop over results
RECURSIVE CountErrorsExceptionsOnly(_)
CountErrorsExceptionsOnly(rs) ==
    IF rs = <<>> THEN 0
    ELSE (IF Head(rs).kind = "exc" THEN 1 ELSE 0) + CountErrorsExceptionsOnly(Tail(rs))

RECURSIVE CountErrors(_)
CountErrors(rs) ==
    IF rs = <<>> THEN 0
    ELSE (IF Head(rs).kind \in {"exc", "none"} THEN 1 ELSE 0) + CountErrors(Tail(rs))

RECURSIVE LatenciesWithFailures(_)
LatenciesWithFailures(rs) ==
    IF rs = <<>> THEN <<>>
    ELSE IF Head(rs).kind = "ok"
         THEN <<Head(rs).latency>> \o LatenciesWithFailures(Tail(rs))
         ELSE <<MsPerSecond>> \o LatenciesWithFailures(Tail(rs))

RECURSIVE Latencies(_)
Latencies(rs) ==
    IF rs = <<>> THEN <<>>
    ELSE IF Head(rs).kind = "ok" THEN <<Head(rs).latency>> \o Latencies(Tail(rs))
    ELSE Latencies(Tail(rs))

RECURSIVE ResponsesOf(_)
ResponsesOf(rs) ==
    IF rs = <<>> THEN <<>>
    ELSE IF Head(rs).kind = "ok" THEN <<Head(rs).response>> \o ResponsesOf(Tail(rs))
    ELSE ResponsesOf(Tail(rs))

\* lines 153-158: the durations of one phase over the responses, in order;
\* a response without the phase adds nothing
TaskTimesZeroDefault(resps, ph) ==
    [k \in 1..Len(resps) |->
        IF \E pr \in resps[k] : pr[1] = ph
        THEN (CHOOSE pr \in resps[k] : pr[1] = ph)[2] ELSE 0]

TaskTimes(resps, ph) ==
    LET has == SelectSeq(resps, LAMBDA r : \E pr \in r : pr[1] = ph)
    IN  [k \in 1..Len(has) |-> (CHOOSE pr \in has[k] : pr[1] = ph)[2]]

\* the dict task_times of lines 153-158: a key for each phase seen
TaskTimesDict(resps) ==
    [ph \in { q \in PhaseNames : TaskTimes(resps, q) # <<>> } |-> TaskTimes(resps, ph)]

\* lines 160-166: task_stats, as a set of records, one per phase seen
TaskStats(resps) ==
    { [task |-> ph,
       avg_ms |-> Mean(TaskTimes(resps, ph)),
       p50_ms |-> Median(TaskTimes(resps, ph)),
       p95_ms |-> P95(TaskTimes(resps, ph))] :
        ph \in { q \in PhaseNames : TaskTimes(resps, q) # <<>> } }

\* lines 168-184: the dict benchmark_service_threaded returns
LatencySummary(lat) ==
    [avg_latency_ms |-> IF lat # <<>> THEN Mean(lat) ELSE Zero,
     p50_latency_ms |-> IF lat # <<>> THEN Median(lat) ELSE Zero,
     p95_latency_ms |-> P95(lat),
     p99_latency_ms |-> P99(lat),
     max_latency_ms |-> IF lat # <<>> THEN MaxSeq(lat) ELSE 0,
     min_latency_ms |-> IF lat # <<>> THEN MinSeq(lat) ELSE 0]

\* line 175: len(latencies) / total_time if total_time > 0 else 0
ThroughputUnguarded(successes, totalTime) == Rat(successes, totalTime)

Throughput(successes, totalTime) ==
    IF totalTime > 0 THEN Rat(successes, totalTime) ELSE Zero

BenchmarkResult(url, rs, numRequests, totalTime) ==
    LET lat == Latencies(rs)
        errs == CountErrors(rs)
    IN  [service_url |-> url,
         total_requests |-> numRequests,
         successful_requests |-> Len(lat),
         errors |-> errs,
         error_rate |-> IF numRequests > 0 THEN Rat(errs, numRequests) ELSE Zero,
         total_time_seconds |-> totalTime,
         throughput_rps |-> Throughput(Len(lat), totalTime),
         latency |-> LatencySummary(lat),
         task_statistics |-> TaskStats(ResponsesOf(rs)),
         raw_latencies |-> lat]

\* lines 358, 362, 366, 393, 394: b / a if a > 0 else 0
RatioInverted(b, a) == IF RatPos(b) THEN RatDiv(a, b) ELSE Zero

Ratio(b, a) == IF RatPos(a) THEN RatDiv(b, a) ELSE Zero

\* [m.cpu_percent for m in metrics], [m.memory_mb for m in metrics]
CpuOf(ms) == [k \in 1..Len(ms) |-> ms[k].cpu_percent]
MemOf(ms) == [k \in 1..Len(ms) |-> ms[k].memory_mb]


\* ------------------------------------------------------------------ state
VARIABLES
    pc,        \* position of run_comparison_benchmark
    health,    \* outcome of the two GET /health probes
    cur,       \* index in Services of the service being tested
    cfg,       \* num_requests, max_workers, monitor_resources
    att,       \* the tasks of the current dispatch: st, age, sends, res
    sem,       \* value of asyncio.Semaphore(max_workers)
    dtime,     \* time.time() - start_time of the current dispatch
    results,   \* python_results / rust_results
    mon,       \* the two ResourceMonitor objects and their threads
    joinLeft,  \* seconds left of monitor_thread.join(timeout=2.0)
    returned,  \* python_resource_metrics / rust_resource_metrics
    posts,     \* POST /research requests sent to each service
    report,    \* the improvement ratios computed at lines 355-394
    artifact,  \* the results dict of lines 418-436, then benchmark_results.json
    statIn,    \* StatSpec: the list of values summarised
    statOut,   \* StatSpec: its summary
    tickIn,    \* TickSpec: the process table of one tick and the list before it
    tickOut,   \* TickSpec: the monitor after the tick and the lines it printed
    aggIn,     \* AggSpec: the results of two gathers
    aggOut,    \* AggSpec: what lines 141-184 make of each
    samp,      \* SamplerSpec: interval, time before the stop, thread promptness
    wf         \* WorkflowSpec: one POST /research in the Python service

\* the variables of the unit specifications TickSpec, AggSpec, SamplerSpec
\* and WorkflowSpec
unitVars == <<tickIn, tickOut, aggIn, aggOut, samp, wf>>

vars == <<pc, health, cur, cfg, att, sem, dtime, results, mon, joinLeft, returned,
          posts, report, artifact, statIn, statOut, unitVars>>

mainVars == <<pc, health, cur, cfg, att, sem, dtime, results, mon, joinLeft, returned,
              posts, report, artifact>>

NoResult == [service_url |-> "none"]
NoReport == [computed |-> FALSE]
NoArtifact == [state |-> "none"]
NoStat == [computed |-> FALSE]
NoTickIn == [svc |-> "none"]
NoTickOut == [done |-> FALSE]
NoAggIn == [a |-> <<>>, b |-> <<>>]
NoAggOut == [a |-> [computed |-> FALSE], b |-> [computed |-> FALSE]]
NoSamp == [interval |-> 0, duration |-> 0, prompt |-> FALSE]
NoFlow == [at |-> "none"]

\* lines 31-35: ResourceMonitor.__init__ ; exists is FALSE for a monitor that
\* is None (monitoring disabled)
NewMonitor(exists) ==
    [exists |-> exists, monitoring |-> FALSE, metrics |-> <<>>,
     thread |-> "none", sleepLeft |-> 0]

Url(s) == IF s = "rust" THEN "http://localhost:3000" ELSE "http://localhost:3001"

Svc == Services[cur]
Attempts == 1..cfg.num_requests
\* the attempts that hold a slot of the gate: the request is under way, or
\* its outcome is fixed and the client is being closed
InFlight == { i \in DOMAIN att : att[i].st \in {"inflight", "closing"} }
Waiting == { i \in DOMAIN att : att[i].st = "waiting" }
Finished == { i \in DOMAIN att : att[i].st = "done" }
Alive(s) == mon[s].thread \in {"check", "tick", "sleep"}

\* the list a resource_metrics variable of run_comparison_benchmark refers to:
\* the monitor's own list object (stop_monitoring returns self.metrics), or []
ResourceMetricsOf(s) == IF returned[s].alias THEN mon[s].metrics ELSE <<>>

\* the arguments of run_comparison_benchmark
Configs ==
    { c \in [num_requests : 0..MaxRequests,
             max_workers : 1..MaxWorkers,
             monitor_resources : BOOLEAN] :
        c.monitor_resources =>
            c.num_requests <= MaxMonitoredRequests /\ c.max_workers <= MaxMonitoredWorkers }

\* the unit specifications are not running
TickIdle == tickIn = NoTickIn /\ tickOut = NoTickOut
AggIdle == aggIn = NoAggIn /\ aggOut = NoAggOut
SampIdle == samp = NoSamp
FlowIdle == wf = NoFlow
UnitIdle == TickIdle /\ AggIdle /\ SampIdle /\ FlowIdle

\* run_comparison_benchmark is not running
MainIdle ==
    /\ health = [s \in ServiceSet |-> "unknown"]
    /\ cur = 1
    /\ cfg = [num_requests |-> 0, max_workers |-> 1, monitor_resources |-> FALSE]
    /\ att = <<>>
    /\ sem = 0
    /\ dtime = 0
    /\ results = [s \in ServiceSet |-> NoResult]
    /\ joinLeft = 0
    /\ returned = [s \in ServiceSet |-> [done |-> FALSE, alias |-> FALSE, samples |-> <<>>]]
    /\ posts = [s \in ServiceSet |-> 0]
    /\ report = NoReport
    /\ artifact = NoArtifact
    /\ statIn = <<>>
    /\ statOut = NoStat

Init ==
    /\ pc = "health_rust"
    /\ health = [s \in ServiceSet |-> "unknown"]
    /\ cur = 1
    /\ cfg \in Configs
    /\ att = <<>>
    /\ sem = 0
    /\ dtime = 0
    /\ results = [s \in ServiceSet |-> NoResult]
    /\ mon = [s \in ServiceSet |-> NewMonitor(FALSE)]
    /\ joinLeft = 0
    /\ returned = [s \in ServiceSet |-> [done |-> FALSE, alias |-> FALSE, samples |-> <<>>]]
    /\ posts = [s \in ServiceSet |-> 0]
    /\ report = NoReport
    /\ artifact = NoArtifact
    /\ statIn = <<>>
    /\ statOut = NoStat
    /\ UnitIdle

\* ------------------------------------------------------------- preflight
\* lines 287-293 and 295-301: a failed probe returns from the function
AfterProbeNoReturn(ok, next) == next

AfterProbe(ok, next) == IF ok THEN next ELSE "aborted"

\* lines 287-293
HealthRust ==
    /\ pc = "health_rust"
    /\ \E ok \in BOOLEAN :
         /\ health' = [health EXCEPT !["rust"] = IF ok THEN "ok" ELSE "failed"]
         /\ pc' = AfterProbe(ok, "health_python")
    /\ UNCHANGED <<cur, cfg, att, sem, dtime, results, mon, joinLeft, returned,
                   posts, report, artifact, statIn, statOut, unitVars>>

\* lines 295-311
HealthPython ==
    /\ pc = "health_python"
    /\ \E ok \in BOOLEAN :
         /\ health' = [health EXCEPT !["python"] = IF ok THEN "ok" ELSE "failed"]
         /\ pc' = AfterProbe(ok, "start")
         /\ mon' = IF pc' = "start"
                   THEN [s \in ServiceSet |-> NewMonitor(cfg.monitor_resources)]
                   ELSE mon
    /\ UNCHANGED <<cur, cfg, att, sem, dtime, results, joinLeft, returned,
                   posts, report, artifact, statIn, statOut, unitVars>>

\* ------------------------------------------------------------ one service
\* lines 37-46: start_monitoring
StartMonitoringNoThread(m) == [m EXCEPT !.monitoring = TRUE, !.metrics = <<>>]

StartMonitoring(m) ==
    [m EXCEPT !.monitoring = TRUE, !.metrics = <<>>, !.thread = "check"]

\* lines 315-318 / 331-334 with lines 103-106, 130, 137: start the sampler if
\* there is one, then create the tasks of the dispatch
StartPhase ==
    /\ UNCHANGED health
    /\ pc = "start"
    /\ mon' = IF mon[Svc].exists
              THEN [mon EXCEPT ![Svc] = StartMonitoring(mon[Svc])]
              ELSE mon
    /\ att' = [i \in Attempts |-> [st |-> "waiting", age |-> 0, sends |-> 0, res |-> ResNone]]
    /\ sem' = cfg.max_workers
    /\ dtime' = 0
    /\ pc' = "gather"
    /\ UNCHANGED <<cur, cfg, results, joinLeft, returned, posts, report, artifact,
                   statIn, statOut, unitVars>>

\* asyncio.Semaphore.acquire proceeds only with a positive value
CanAcquireUnbounded(value) == TRUE

CanAcquireAboveOne(value) == value > 1

CanAcquire(value) == value > 0

\* lines 132-134 and 110-116: a task passes the gate, takes request_start and
\* sends its POST
\* line 110: request_start = time.time(), taken inside the gate; elapsed is
\* the time since the tasks were created at line 137
RequestStartAtCreation(elapsed) == elapsed

RequestStart(elapsed) == 0

Acquire(i) ==
    /\ UNCHANGED health
    /\ pc = "gather"
    /\ att[i].st = "waiting"
    /\ CanAcquire(sem)
    /\ sem' = sem - 1
    /\ att' = [att EXCEPT ![i].st = "inflight", ![i].age = RequestStart(dtime),
                          ![i].sends = @ + 1]
    /\ posts' = [posts EXCEPT ![Svc] = @ + 1]
    /\ UNCHANGED <<pc, cur, cfg, dtime, results, mon, joinLeft, returned, report,
                   artifact, statIn, statOut, unitVars>>

\* lines 113-123: the request ends: the response is accepted and the latency
\* taken (line 119), or an exception leaves the body of `async with client`;
\* the client is then closed (line 112), which can suspend the task
AfterOutcomeRetry(a, outcome, response) ==
    IF outcome = "ok"
    THEN [a EXCEPT !.st = "closing", !.res = RequestResult(outcome, a.age, response), !.age = 0]
    ELSE [a EXCEPT !.st = "waiting", !.age = 0]

AfterOutcome(a, outcome, response) ==
    [a EXCEPT !.st = "closing", !.res = RequestResult(outcome, a.age, response), !.age = 0]

Complete(i) ==
    /\ UNCHANGED health
    /\ pc = "gather"
    /\ att[i].st = "inflight"
    /\ \E outcome \in Outcomes, response \in Responses :
         att' = [att EXCEPT ![i] = AfterOutcome(att[i], outcome, response)]
    /\ UNCHANGED <<pc, cur, cfg, sem, dtime, results, mon, joinLeft, returned, posts,
                   report, artifact, statIn, statOut, unitVars>>

\* line 133: leaving `async with semaphore`, however make_request ended,
\* gives the slot back
ReleaseOnSuccessOnly(value, outcome) == IF outcome = "ok" THEN value + 1 ELSE value

Release(value, outcome) == value + 1

\* lines 112, 123-127 and 133-134: the client is closed, make_request returns
\* its dict or None, the slot is released and the task ends
Leave(i) ==
    /\ UNCHANGED health
    /\ pc = "gather"
    /\ att[i].st = "closing"
    /\ att' = [att EXCEPT ![i].st = "done"]
    /\ sem' = Release(sem, att[i].res.kind)
    /\ UNCHANGED <<pc, cur, cfg, dtime, results, mon, joinLeft, returned, posts,
                   report, artifact, statIn, statOut, unitVars>>

\* lines 138-184: gather has every result; the results are counted and summarised
GatherReturn ==
    /\ UNCHANGED health
    /\ pc = "gather"
    /\ \A i \in DOMAIN att : att[i].st = "done"
    /\ results' = [results EXCEPT ![Svc] =
                     BenchmarkResult(Url(Svc), [i \in DOMAIN att |-> att[i].res],
                                     cfg.num_requests, dtime)]
    /\ pc' = "stop"
    /\ UNCHANGED <<cur, cfg, att, sem, dtime, mon, joinLeft, returned, posts,
                   report, artifact, statIn, statOut, unitVars>>

NextPhase == IF cur = 1 THEN "start" ELSE "compare"

\* lines 322-324 / 338-340 with lines 50-52: clear the flag and begin the join;
\* without a monitor the metrics are the literal []
StopFlagKept(m) == m

StopFlag(m) == [m EXCEPT !.monitoring = FALSE]

StopMonitoring ==
    /\ UNCHANGED health
    /\ pc = "stop"
    /\ IF mon[Svc].exists
       THEN /\ mon' = [mon EXCEPT ![Svc] = StopFlag(mon[Svc])]
            /\ joinLeft' = JoinTimeout
            /\ pc' = "join"
            /\ UNCHANGED <<cur, returned>>
       ELSE /\ returned' = [returned EXCEPT ![Svc] =
                              [done |-> TRUE, alias |-> FALSE, samples |-> <<>>]]
            /\ pc' = NextPhase
            /\ cur' = IF cur = 1 THEN 2 ELSE cur
            /\ UNCHANGED <<mon, joinLeft>>
    /\ UNCHANGED <<cfg, att, sem, dtime, results, posts, report, artifact,
                   statIn, statOut, unitVars>>

\* line 52: join(timeout=2.0) ends when the thread has ended or the time is up
JoinOverNoTimeout(thread, left) == thread = "exited"

JoinOver(thread, left) == thread = "exited" \/ left = 0

\* lines 52-53: the join ends and self.metrics, the list itself, is returned
JoinReturn ==
    /\ UNCHANGED health
    /\ pc = "join"
    /\ JoinOver(mon[Svc].thread, joinLeft)
    /\ returned' = [returned EXCEPT ![Svc] =
                      [done |-> TRUE, alias |-> TRUE, samples |-> mon[Svc].metrics]]
    /\ pc' = NextPhase
    /\ cur' = IF cur = 1 THEN 2 ELSE cur
    /\ joinLeft' = 0
    /\ UNCHANGED <<cfg, att, sem, dtime, results, mon, posts, report, artifact,
                   statIn, statOut, unitVars>>


\* ------------------------------------------------------ the sampler thread
\* line 57: while self.monitoring, tested when the thread starts and again
\* each time the sleep of line 86 is over
AfterCheckIgnoresFlag(monitoring) == "tick"

AfterCheck(monitoring) == IF monitoring THEN "tick" ELSE "exited"

SamplerCheck(s) ==
    /\ UNCHANGED health
    /\ pc \notin {"done", "aborted", "raised"}
    /\ \/ mon[s].thread = "check"
       \/ mon[s].thread = "sleep" /\ mon[s].sleepLeft = 0
    /\ mon' = [mon EXCEPT ![s].thread = AfterCheck(mon[s].monitoring)]
    /\ UNCHANGED <<pc, cur, cfg, att, sem, dtime, results, joinLeft, returned,
                   posts, report, artifact, statIn, statOut, unitVars>>

\* line 86: time.sleep(interval)
SleepForZero(interval) == 0

SleepFor(interval) == interval

\* lines 58-89: one tick: enumerate the processes, append a sample if any
\* matched, then sleep; an exception that reaches line 87 ends the loop
TickResultAlwaysAppends(m, s, table, interval) ==
    LET t == TickTotals(table, Filters(s), TickStart) IN
    IF t.err THEN [m EXCEPT !.thread = "exited"]
    ELSE [m EXCEPT !.metrics = Append(@, ResourceMetrics(t)),
                   !.thread = "sleep",
                   !.sleepLeft = SleepFor(interval)]

TickResultEvery(m, s, table, interval) ==
    LET t == TickTotals(table, Filters(s), TickStart) IN
    IF t.err THEN [m EXCEPT !.thread = "exited"]
    ELSE [m EXCEPT !.metrics = IF t.found > 0 THEN Append(@, ResourceMetrics(t)) ELSE @,
                   !.thread = "sleep",
                   !.sleepLeft = SleepFor(interval)]

\* the tick of a monitor started by start_monitoring(), interval = 1.0
TickResult(m, s, table) == TickResultEvery(m, s, table, Interval)

\* line 88: what a tick prints
TickLog(table, filters) ==
    IF TickTotals(table, filters, TickStart).err
    THEN <<"Resource monitoring error">> ELSE <<>>

SamplerTick(s) ==
    /\ UNCHANGED health
    /\ pc \notin {"done", "aborted", "raised"}
    /\ mon[s].thread = "tick"
    /\ Len(mon[s].metrics) < MaxSamples
    /\ \E table \in RunTables : mon' = [mon EXCEPT ![s] = TickResult(mon[s], s, table)]
    /\ UNCHANGED <<pc, cur, cfg, att, sem, dtime, results, joinLeft, returned,
                   posts, report, artifact, statIn, statOut, unitVars>>

\* ------------------------------------------------------------------- time
\* one second passes while the main coroutine is blocked: in gather with an
\* unfinished task, or in join before its timeout
Tick ==
    /\ UNCHANGED health
    /\ \/ pc = "gather" /\ Finished # DOMAIN att /\ dtime < MaxTime
       \/ pc = "join" /\ joinLeft > 0 /\ mon[Svc].thread # "exited"
    /\ dtime' = IF pc = "gather" THEN dtime + 1 ELSE dtime
    /\ joinLeft' = IF pc = "join" THEN joinLeft - 1 ELSE joinLeft
    /\ att' = [i \in DOMAIN att |->
                 IF att[i].st = "inflight" THEN [att[i] EXCEPT !.age = @ + 1] ELSE att[i]]
    /\ mon' = [s \in ServiceSet |->
                 IF mon[s].thread = "sleep" /\ mon[s].sleepLeft > 0
                 THEN [mon[s] EXCEPT !.sleepLeft = @ - 1] ELSE mon[s]]
    /\ UNCHANGED <<pc, cur, cfg, sem, results, returned, posts, report, artifact,
                   statIn, statOut, unitVars>>

\* ------------------------------------------------------------- comparison
\* lines 355-366 and 381-394: the improvement ratios
P95RatioWrongField(p, r) == Ratio(p.latency.p95_latency_ms, r.latency.avg_latency_ms)

P95Ratio(p, r) == Ratio(p.latency.p95_latency_ms, r.latency.p95_latency_ms)

\* lines 410-411: task_statistics.get(task, {}).get('avg_ms', 0)
TaskAvg(res, ph) ==
    IF \E x \in res.task_statistics : x.task = ph
    THEN (CHOOSE x \in res.task_statistics : x.task = ph).avg_ms
    ELSE Zero

\* lines 407-415: the per-task ratios, computed where both averages are > 0
TaskImprovements(p, r) ==
    { [task |-> ph, improvement |-> RatDiv(TaskAvg(p, ph), TaskAvg(r, ph))] :
        ph \in { q \in PhaseNames : RatPos(TaskAvg(r, q)) /\ RatPos(TaskAvg(p, q)) } }

\* line 381: the resource statistics are computed when monitoring was asked
\* for and both lists have a sample
ResourceGuardMonitorOnly(monitor, rm, pm) == monitor

ResourceGuard(monitor, rm, pm) == monitor /\ rm # <<>> /\ pm # <<>>

\* lines 355-366, 381 and 407-415: the ratios that come from the two results,
\* and the test of line 381 on the two lists as they are at that moment; the
\* resource statistics are filled in by the reads that follow
Comparison(p, r, pm, rm, monitor) ==
    [computed |-> ~ResourceGuard(monitor, rm, pm),
     task_improvements |-> TaskImprovements(p, r),
     avg_improvement |-> Ratio(p.latency.avg_latency_ms, r.latency.avg_latency_ms),
     p50_improvement |-> Ratio(p.latency.p50_latency_ms, r.latency.p50_latency_ms),
     p95_improvement |-> P95Ratio(p, r),
     resources |-> ResourceGuard(monitor, rm, pm),
     python_samples |-> pm,
     rust_samples |-> rm,
     rust_avg_cpu |-> Zero,
     rust_avg_memory |-> Zero,
     rust_max_memory |-> Zero,
     python_avg_cpu |-> Zero,
     python_avg_memory |-> Zero,
     python_max_memory |-> Zero,
     cpu_improvement |-> Zero,
     memory_improvement |-> Zero]

\* lines 346-381: the latency comparison and the test of line 381
Compare ==
    /\ UNCHANGED health
    /\ pc = "compare"
    /\ report' = Comparison(results["python"], results["rust"],
                            ResourceMetricsOf("python"), ResourceMetricsOf("rust"),
                            cfg.monitor_resources)
    /\ pc' = IF report'.resources THEN "rust_avg_cpu" ELSE "save"
    /\ UNCHANGED <<cur, cfg, att, sem, dtime, results, mon, joinLeft, returned,
                   posts, statIn, statOut, unitVars>>
    /\ UNCHANGED artifact

\* lines 385-391: statistics.mean([m.cpu_percent ...]),
\* statistics.mean([m.memory_mb ...]) and max([m.memory_mb ...])
AvgCpu(ms) == Mean(CpuOf(ms))
AvgMemory(ms) == MeanFloats(MemOf(ms))
MaxMemory(ms) == MaxFloats(MemOf(ms))

\* the statement of lines 385-391 that fills one field of the comparison:
\* <<field, service whose list is read, position after it>>
ResourceReads ==
    { <<"rust_avg_cpu", "rust", "rust_avg_memory">>,
      <<"rust_avg_memory", "rust", "rust_max_memory">>,
      <<"rust_max_memory", "rust", "python_avg_cpu">>,
      <<"python_avg_cpu", "python", "python_avg_memory">>,
      <<"python_avg_memory", "python", "python_max_memory">>,
      <<"python_max_memory", "python", "ratios">> }

StatisticOf(field, ms) ==
    IF field \in {"rust_avg_cpu", "python_avg_cpu"} THEN AvgCpu(ms)
    ELSE IF field \in {"rust_avg_memory", "python_avg_memory"} THEN AvgMemory(ms)
    ELSE MaxMemory(ms)

\* one of the lines 385-387, 389-391: the list is read as it is now (the
\* sampler thread may have appended to it since the last read); mean and max
\* of an empty list raise, which nothing in run_comparison_benchmark catches
ReadResource(rd) ==
    /\ UNCHANGED health
    /\ pc = rd[1]
    /\ LET ms == ResourceMetricsOf(rd[2])
       IN  IF ms = <<>>
           THEN /\ pc' = "raised"
                /\ UNCHANGED report
           ELSE /\ report' = [report EXCEPT ![rd[1]] = StatisticOf(rd[1], ms)]
                /\ pc' = rd[3]
    /\ UNCHANGED <<cur, cfg, att, sem, dtime, results, mon, joinLeft, returned,
                   posts, statIn, statOut, unitVars>>
    /\ UNCHANGED artifact

\* lines 393-394: the two resource ratios, from the averages just computed
ResourceRatios ==
    /\ UNCHANGED health
    /\ pc = "ratios"
    /\ report' = [report EXCEPT
                    !.cpu_improvement = Ratio(report.python_avg_cpu, report.rust_avg_cpu),
                    !.memory_improvement =
                        Ratio(report.python_avg_memory, report.rust_avg_memory),
                    !.computed = TRUE]
    /\ pc' = "save"
    /\ UNCHANGED <<cur, cfg, att, sem, dtime, results, mon, joinLeft, returned,
                   posts, statIn, statOut, unitVars>>
    /\ UNCHANGED artifact

\* lines 428-435: [... for m in metrics] if metrics else [], a copy of the
\* list as it is when the statement runs
MetricsCopy(ms) == IF ms # <<>> THEN ms ELSE <<>>

\* lines 418-431: the results dict is begun: the two results and a copy of the
\* Rust samples
CopyRustMetrics ==
    /\ UNCHANGED health
    /\ pc = "save"
    /\ artifact' = [state |-> "building",
                    rust_results |-> results["rust"],
                    python_results |-> results["python"],
                    rust_resource_metrics |-> MetricsCopy(ResourceMetricsOf("rust")),
                    python_resource_metrics |-> <<>>]
    /\ pc' = "save_python"
    /\ UNCHANGED <<cur, cfg, att, sem, dtime, results, mon, joinLeft, returned,
                   posts, report, statIn, statOut, unitVars>>

\* lines 432-436: a copy of the Python samples ends the dict
CopyPythonMetrics ==
    /\ UNCHANGED health
    /\ pc = "save_python"
    /\ artifact' = [artifact EXCEPT
                      !.state = "built",
                      !.python_resource_metrics =
                          MetricsCopy(ResourceMetricsOf("python"))]
    /\ pc' = "write"
    /\ UNCHANGED <<cur, cfg, att, sem, dtime, results, mon, joinLeft, returned,
                   posts, report, statIn, statOut, unitVars>>

\* lines 438-439: the dict is written to the file; open() or json.dump
\* raising is not caught and leaves run_comparison_benchmark as an exception
Save ==
    /\ UNCHANGED health
    /\ pc = "write"
    /\ \E ok \in BOOLEAN :
         IF ok
         THEN /\ artifact' = [artifact EXCEPT !.state = "written"]
              /\ pc' = "done"
         ELSE /\ artifact' = [state |-> "failed"]
              /\ pc' = "raised"
    /\ UNCHANGED <<cur, cfg, att, sem, dtime, results, mon, joinLeft, returned,
                   posts, report, statIn, statOut, unitVars>>

Next ==
    \/ HealthRust
    \/ HealthPython
    \/ StartPhase
    \/ \E i \in DOMAIN att : Acquire(i)
    \/ \E i \in DOMAIN att : Complete(i)
    \/ \E i \in DOMAIN att : Leave(i)
    \/ GatherReturn
    \/ StopMonitoring
    \/ JoinReturn
    \/ \E s \in ServiceSet : SamplerCheck(s)
    \/ \E s \in ServiceSet : SamplerTick(s)
    \/ Tick
    \/ Compare
    \/ \E rd \in ResourceReads : ReadResource(rd)
    \/ ResourceRatios
    \/ CopyRustMetrics
    \/ CopyPythonMetrics
    \/ Save

Spec == Init /\ [][Next]_vars


\* liveness: the main thread is scheduled, and time passes
FairSpec == Spec /\ WF_vars(JoinReturn) /\ WF_vars(Tick)

\* liveness of the dispatch: the event loop runs every task that can run (a
\* waiter is woken when a slot is free, gather returns when all are done),
\* and every request that was sent ends, at the latest by its timeout
GateFairSpec ==
    /\ Spec
    /\ WF_vars(\E i \in DOMAIN att : Acquire(i))
    /\ WF_vars(\E i \in DOMAIN att : Complete(i))
    /\ WF_vars(\E i \in DOMAIN att : Leave(i))
    /\ WF_vars(GatherReturn)

\* --------------------------------------------- StatSpec: the summary alone
\* the lists summarised: 1..n, n..1, and n values with one outlier in front
Iota(n) == [k \in 1..n |-> k]
Desc(n) == [k \in 1..n |-> n + 1 - k]
OutlierFirst(n) == [k \in 1..n |-> IF k = 1 THEN 10 ELSE 1]
\* short lists of even and odd length, in and out of order
MedianExamples == { <<10, 20, 30, 40>>, <<10, 20, 30>>, <<30, 10, 40, 20>>, <<20, 30, 10>> }
StatInputs ==
    UNION { {Iota(n), Desc(n), OutlierFirst(n)} : n \in 0..MaxStatLen } \cup MedianExamples

StatInit ==
    /\ pc = "stat"
    /\ health = [s \in ServiceSet |-> "unknown"]
    /\ cur = 1
    /\ cfg = [num_requests |-> 0, max_workers |-> 1, monitor_resources |-> FALSE]
    /\ att = <<>>
    /\ sem = 0
    /\ dtime = 0
    /\ results = [s \in ServiceSet |-> NoResult]
    /\ mon = [s \in ServiceSet |-> NewMonitor(FALSE)]
    /\ joinLeft = 0
    /\ returned = [s \in ServiceSet |-> [done |-> FALSE, alias |-> FALSE, samples |-> <<>>]]
    /\ posts = [s \in ServiceSet |-> 0]
    /\ report = NoReport
    /\ artifact = NoArtifact
    /\ statIn \in StatInputs
    /\ statOut = NoStat
    /\ UnitIdle

\* responses whose only phase is "research", with the values of s as durations
ResearchOnly(s) == [k \in 1..Len(s) |-> { <<"research", s[k]>> }]

\* lines 176-181 applied to statIn as the latencies, and lines 153-166 applied
\* to statIn as the durations of one phase
Summarize ==
    /\ pc = "stat"
    /\ statOut = NoStat
    /\ statOut' = [computed |-> TRUE,
                   summary |-> LatencySummary(statIn),
                   tasks |-> TaskStats(ResearchOnly(statIn))]
    /\ UNCHANGED <<mainVars, statIn, unitVars>>

StatNext == Summarize

StatSpec == StatInit /\ [][StatNext]_vars

\* ------------------------------------------------ TickSpec: one tick alone
\* the processes psutil.process_iter can yield: readable ones with or without a
\* name and a cpu_percent, and processes of either service that cannot be
\* inspected
ProcInfos ==
    { Proc(n, c, "none") :
        n \in {None, Some(NameBash), Some(NamePython3), Some(NameRustSvc)},
        c \in {None, Some(2)} }
    \cup { ProcRss(Some(NamePython3), Some(2), 3 * (MiB \div 2), "none"),
           ProcRss(Some(NameRustSvc), Some(2), MiB \div 2, "none") }
    \cup { Proc(Some(n), Some(2), f) :
             n \in {NamePython3, NameRustSvc}, f \in {"NoSuchProcess", "AccessDenied"} }

\* the process table of one tick
ProcTables == UNION { [1..n -> ProcInfos] : n \in 0..MaxProcs }

\* self.metrics before the tick: empty, or one sample
PriorMetrics == { <<>>, <<[cpu_percent |-> 1, memory_mb |-> Rat(1, 1), threads |-> 1]>> }

\* a monitor whose loop has passed `while self.monitoring` and begins a tick
TickInit ==
    /\ pc = "sampling"
    /\ MainIdle
    /\ AggIdle
    /\ SampIdle
    /\ FlowIdle
    /\ tickIn \in [svc : ServiceSet, table : ProcTables, before : PriorMetrics]
    /\ tickOut = NoTickOut
    /\ mon = [s \in ServiceSet |->
                IF s = tickIn.svc
                THEN [NewMonitor(TRUE) EXCEPT !.monitoring = TRUE,
                                              !.metrics = tickIn.before,
                                              !.thread = "tick"]
                ELSE NewMonitor(TRUE)]

\* lines 58-89 on the table of tickIn
RunTick ==
    /\ pc = "sampling"
    /\ ~tickOut.done
    /\ mon' = [mon EXCEPT ![tickIn.svc] = TickResult(@, tickIn.svc, tickIn.table)]
    /\ tickOut' = [done |-> TRUE, log |-> TickLog(tickIn.table, Filters(tickIn.svc))]
    /\ UNCHANGED <<pc, health, cur, cfg, att, sem, dtime, results, joinLeft, returned,
                   posts, report, artifact, statIn, statOut, tickIn, aggIn, aggOut, samp, wf>>

TickNext == RunTick

TickSpec == TickInit /\ [][TickNext]_vars

\* ------------------------------------- AggSpec: lines 141-184 on two gathers
\* response bodies: every phase timed, one phase only, no task_times at all
RespFull == { <<ph, 1>> : ph \in PhaseNames }
RespResearch == { <<"research", 3>> }
RespNoTimes == {}

\* the values gather can hold for one task
GatherValues ==
    { ResNone, ResExc,
      ResOk(1 * MsPerSecond, RespFull),
      ResOk(2 * MsPerSecond, RespResearch),
      ResOk(3 * MsPerSecond, RespNoTimes) }

GatherLists == UNION { [1..n -> GatherValues] : n \in 0..MaxAggLen }

\* the same values in another order
Reorderings(rs) ==
    { [k \in 1..Len(rs) |-> rs[f[k]]] :
        f \in { g \in [1..Len(rs) -> 1..Len(rs)] :
                   \A i, j \in 1..Len(rs) : g[i] = g[j] => i = j } }

\* two dispatches whose attempts had the same outcomes, gathered in two orders
AggInit ==
    /\ pc = "aggregate"
    /\ MainIdle
    /\ mon = [s \in ServiceSet |-> NewMonitor(FALSE)]
    /\ TickIdle
    /\ SampIdle
    /\ FlowIdle
    /\ aggIn \in UNION { { [a |-> rs, b |-> qs] : qs \in Reorderings(rs) } :
                          rs \in GatherLists }
    /\ aggOut = NoAggOut

\* lines 141-184 on one of the two lists, with the dispatch's elapsed time
Aggregate(side) ==
    /\ pc = "aggregate"
    /\ ~aggOut[side].computed
    /\ \E totalTime \in 0..MaxTime :
         aggOut' = [aggOut EXCEPT ![side] =
                      [computed |-> TRUE,
                       task_times |-> TaskTimesDict(ResponsesOf(aggIn[side])),
                       result |-> BenchmarkResult("url", aggIn[side],
                                                  Len(aggIn[side]), totalTime)]]
    /\ UNCHANGED <<pc, health, cur, cfg, att, sem, dtime, results, mon, joinLeft,
                   returned, posts, report, artifact, statIn, statOut,
                   tickIn, tickOut, aggIn, samp, wf>>

AggNext == \E side \in {"a", "b"} : Aggregate(side)

AggSpec == AggInit /\ [][AggNext]_vars

\* ------------------------- SamplerSpec: start_monitoring, wait, stop_monitoring
\* the tables in which each service has a process that can be read
PresentTables ==
    { tb \in RunTables :
        \A s \in ServiceSet :
            LET tt == TickTotals(tb, Filters(s), TickStart) IN tt.found > 0 /\ ~tt.err }

\* the caller has just returned from start_monitoring(interval) and will call
\* stop_monitoring() samp.duration seconds later
SampInit ==
    /\ pc = "run"
    /\ MainIdle
    /\ TickIdle
    /\ AggIdle
    /\ FlowIdle
    /\ samp \in [interval : 1..MaxInterval, duration : 0..MaxDuration, prompt : BOOLEAN]
    /\ mon = [s \in ServiceSet |->
                IF s = Svc THEN StartMonitoring(NewMonitor(TRUE)) ELSE NewMonitor(FALSE)]

\* the loop thread has something to do now
SampReady ==
    \/ mon[Svc].thread \in {"check", "tick"}
    \/ mon[Svc].thread = "sleep" /\ mon[Svc].sleepLeft = 0

\* lines 58-86 with a matching process present, sleeping samp.interval
SampTick ==
    /\ pc \in {"run", "join", "stopped"}
    /\ mon[Svc].thread = "tick"
    /\ \E tb \in PresentTables :
         mon' = [mon EXCEPT ![Svc] = TickResultEvery(@, Svc, tb, samp.interval)]
    /\ UNCHANGED <<pc, health, cur, cfg, att, sem, dtime, results, joinLeft, returned,
                   posts, report, artifact, statIn, statOut, unitVars>>

\* one second passes before the stop, during the join, or after the join
\* while the loop thread still sleeps; a prompt thread never lets time pass
\* while it has something to do
SampClock ==
    /\ \/ pc = "run" /\ dtime < samp.duration
       \/ pc = "join" /\ joinLeft > 0 /\ mon[Svc].thread # "exited"
       \/ pc = "stopped" /\ mon[Svc].thread = "sleep" /\ mon[Svc].sleepLeft > 0
    /\ samp.prompt => ~SampReady
    /\ dtime' = IF pc = "run" THEN dtime + 1 ELSE dtime
    /\ joinLeft' = IF pc = "join" THEN joinLeft - 1 ELSE joinLeft
    /\ mon' = [s \in ServiceSet |->
                 IF mon[s].thread = "sleep" /\ mon[s].sleepLeft > 0
                 THEN [mon[s] EXCEPT !.sleepLeft = @ - 1] ELSE mon[s]]
    /\ UNCHANGED <<pc, health, cur, cfg, att, sem, results, returned,
                   posts, report, artifact, statIn, statOut, unitVars>>

\* lines 50-52: stop_monitoring clears the flag and begins the join
SampStop ==
    /\ pc = "run"
    /\ dtime = samp.duration
    /\ mon' = [mon EXCEPT ![Svc] = StopFlag(@)]
    /\ joinLeft' = JoinTimeout
    /\ pc' = "join"
    /\ UNCHANGED <<health, cur, cfg, att, sem, dtime, results, returned,
                   posts, report, artifact, statIn, statOut, unitVars>>

\* lines 52-53: the join ends and self.metrics is returned
SampJoinReturn ==
    /\ pc = "join"
    /\ JoinOver(mon[Svc].thread, joinLeft)
    /\ returned' = [returned EXCEPT ![Svc] =
                      [done |-> TRUE, alias |-> TRUE, samples |-> mon[Svc].metrics]]
    /\ joinLeft' = 0
    /\ pc' = "stopped"
    /\ UNCHANGED <<health, cur, cfg, att, sem, dtime, results, mon,
                   posts, report, artifact, statIn, statOut, unitVars>>

SampNext ==
    \/ SamplerCheck(Svc)
    \/ SampTick
    \/ SampClock
    \/ SampStop
    \/ SampJoinReturn

SamplerSpec == SampInit /\ [][SampNext]_vars

\* liveness of the loop thread: both threads are scheduled and time passes
SamplerFairSpec ==
    /\ SamplerSpec
    /\ WF_vars(SampJoinReturn)
    /\ WF_vars(SamplerCheck(Svc))
    /\ WF_vars(SampTick)
    /\ WF_vars(SampClock)

\* ------------------- WorkflowSpec: one POST /research in the Python service
\* workflow.py lines 20-23: add_node
Nodes == {"extract_questions", "research", "summarize", "generate_report"}

\* workflow.py lines 25-27: add_edge
EdgesSkipSummarize ==
    { <<"extract_questions", "research">>, <<"research", "generate_report">> }

Edges ==
    { <<"extract_questions", "research">>, <<"research", "summarize">>,
      <<"summarize", "generate_report">> }

\* workflow.py line 29: set_entry_point
EntryPoint == "extract_questions"

\* the nodes the compiled graph runs after node n; none: the graph has ended
Successors(n) == { e[2] : e \in { x \in Edges : x[1] = n } }

\* d[k] = v on a dict held as a set of <<key, value>> pairs
SetItem(d, k, v) == { p \in d : p[1] # k } \cup { <<k, v>> }

Keys(d) == { p[1] : p \in d }

\* main.py lines 44-49: the handler has been entered with a valid request
FlowInit ==
    /\ pc = "flow"
    /\ MainIdle
    /\ mon = [s \in ServiceSet |-> NewMonitor(FALSE)]
    /\ TickIdle
    /\ AggIdle
    /\ SampIdle
    /\ wf = [at |-> "received", ran |-> <<>>, raised |-> "none", task_times |-> {},
             status |-> 0, body |-> {}, errors |-> 0, responses |-> <<>>]

\* main.py lines 51-63: the initial state, task_times={}, and workflow.ainvoke
ResearchInvoke ==
    /\ wf.at = "received"
    /\ wf' = [wf EXCEPT !.at = EntryPoint, !.task_times = {}]
    /\ UNCHANGED <<mainVars, statIn, statOut, tickIn, tickOut, aggIn, aggOut, samp>>

\* workflow.py lines 34-65, 68-112, 115-152, 155-202: one node; it either
\* raises, which ends ainvoke with the exception, or stores its elapsed_ms
\* under its own name and returns the state, and the graph follows its edge
RunNode(n) ==
    /\ wf.at = n
    /\ \E raises \in BOOLEAN, elapsed_ms \in 0..MaxPhaseMs :
         wf' = IF raises
               THEN [wf EXCEPT !.at = "except", !.raised = n]
               ELSE [wf EXCEPT !.task_times = SetItem(@, n, elapsed_ms),
                               !.ran = Append(@, n),
                               !.at = IF Successors(n) = {} THEN "respond"
                                      ELSE CHOOSE m \in Successors(n) : TRUE]
    /\ UNCHANGED <<mainVars, statIn, statOut, tickIn, tickOut, aggIn, aggOut, samp>>

\* main.py lines 65-82: the response with the task_times of the final state
ResearchRespond ==
    /\ wf.at = "respond"
    /\ wf' = [wf EXCEPT !.at = "responded", !.status = 200, !.body = wf.task_times]
    /\ UNCHANGED <<mainVars, statIn, statOut, tickIn, tickOut, aggIn, aggOut, samp>>

\* main.py lines 84-86: except Exception: raise HTTPException(status_code=500)
ResearchExcept ==
    /\ wf.at = "except"
    /\ wf' = [wf EXCEPT !.at = "responded", !.status = 500]
    /\ UNCHANGED <<mainVars, statIn, statOut, tickIn, tickOut, aggIn, aggOut, samp>>

\* benchmark.py lines 117-127 and 141-148: the dispatcher receives the
\* response; raise_for_status raises for a 500
DispatcherCount ==
    /\ wf.at = "responded"
    /\ LET outcome == IF wf.status = 200 THEN "ok" ELSE "bad_status"
           rs == << RequestResult(outcome, 0, wf.body) >>
       IN  wf' = [wf EXCEPT !.at = "counted",
                            !.errors = CountErrors(rs),
                            !.responses = ResponsesOf(rs)]
    /\ UNCHANGED <<mainVars, statIn, statOut, tickIn, tickOut, aggIn, aggOut, samp>>

FlowNext ==
    \/ ResearchInvoke
    \/ \E n \in Nodes : RunNode(n)
    \/ ResearchRespond
    \/ ResearchExcept
    \/ DispatcherCount

WorkflowSpec == FlowInit /\ [][FlowNext]_vars

\* ================================================================= claims

\* ---- C1
\* C1: a dispatch of N attempts returns successful_requests + errors = N, with
\* one outcome per attempt (a latency for a success, an error otherwise) and
\* exactly successful_requests raw latencies.
C1_OneOutcomePerAttempt ==
    /\ \A s \in ServiceSet :
         results[s] # NoResult =>
            /\ results[s].total_requests = cfg.num_requests
            /\ results[s].successful_requests + results[s].errors = cfg.num_requests
            /\ Len(results[s].raw_latencies) = results[s].successful_requests
    /\ pc = "stop" =>
            /\ results[Svc].successful_requests
                 = Cardinality({ i \in DOMAIN att : att[i].res.kind = "ok" })
            /\ results[Svc].errors
                 = Cardinality({ i \in DOMAIN att : att[i].res.kind # "ok" })

C1_Witness ==
    /\ pc = "stop"
    /\ cfg.num_requests = 2
    /\ results[Svc].successful_requests = 1
    /\ results[Svc].errors = 1

\* ---- C2
\* C2: at most max_workers attempts are in flight (sent, and not yet out of
\* the gate) at any time; every attempt that is neither in flight nor finished
\* waits at the gate, unsent.
C2_BoundedInFlight ==
    /\ Cardinality(InFlight) <= cfg.max_workers
    /\ \A i \in DOMAIN att :
         att[i].st \notin {"inflight", "closing", "done"} =>
            att[i].st = "waiting" /\ att[i].sends = 0

C2_Witness ==
    /\ pc = "gather"
    /\ Cardinality(InFlight) = cfg.max_workers
    /\ Waiting # {}

\* ---- C3
\* C3: a failed attempt is one error, is sent once only, and when the dispatch
\* returns every attempt has been sent once and has its own outcome.
C3_FailureIsolated ==
    /\ \A i \in DOMAIN att : att[i].sends <= 1
    /\ \A s \in ServiceSet : posts[s] <= cfg.num_requests
    /\ pc = "stop" =>
         /\ \A i \in DOMAIN att : att[i].st = "done" /\ att[i].sends = 1
         /\ results[Svc].errors
              = Cardinality({ i \in DOMAIN att : att[i].res.kind = "none" })
         /\ results[Svc].successful_requests
              = Cardinality({ i \in DOMAIN att : att[i].res.kind = "ok" })

C3_Witness ==
    /\ pc = "stop"
    /\ \E i, j \in DOMAIN att : att[i].res.kind = "none" /\ att[j].res.kind = "ok"

\* ---- C4
\* C4: after a failed health probe the run has ended with no /research request
\* sent, no sampler started and no artifact written.
ProbeFailed == \E s \in ServiceSet : health[s] = "failed"

C4_PreflightAbort ==
    ProbeFailed =>
        /\ pc = "aborted"
        /\ \A s \in ServiceSet :
             posts[s] = 0 /\ mon[s].thread = "none" /\ results[s] = NoResult
        /\ artifact = NoArtifact

C4_Witness == health["rust"] = "ok" /\ health["python"] = "failed" /\ pc = "aborted"

\* ---- C5
SecondStarted == mon["rust"].thread # "none" \/ posts["rust"] > 0

\* C5 as stated: once the second service's sampler or first request has been
\* started, the first service's requests are finished and its sampler loop is
\* no longer running; two sampler loops never run together.
C5_Claim ==
    /\ SecondStarted => results["python"] # NoResult /\ ~Alive("python")
    /\ ~(Alive("python") /\ Alive("rust"))

\* C5 amended: once the second service's sampler or first request has been
\* started, the first service's dispatch has returned and its stop_monitoring
\* has returned with the monitoring flag cleared; the two monitoring flags are
\* never set together.
C5_Sequential ==
    /\ SecondStarted =>
          /\ results["python"] # NoResult
          /\ returned["python"].done
          /\ ~mon["python"].monitoring
    /\ ~(mon["python"].monitoring /\ mon["rust"].monitoring)

C5_Witness == Alive("python") /\ Alive("rust") /\ posts["rust"] > 0

\* ---- C6
\* C6: a stop_monitoring that waits in join always returns, whether or not the
\* sampler loop exits.
C6_StopReturns == (pc = "join") ~> (pc # "join")

C6_Witness == \E s \in ServiceSet : returned[s].done /\ mon[s].thread = "tick"

\* ---- C7
\* the sampler of s was stopped with no time elapsed since it was started
ImmediateStop(s) ==
    returned[s].done /\ returned[s].alias /\ results[s].total_time_seconds = 0

\* C7 as stated: an immediate stop returns an empty sample sequence.
C7_Claim == \A s \in ServiceSet : ImmediateStop(s) => returned[s].samples = <<>>

\* C7 amended: an immediate stop returns at most one sample (the loop samples
\* before its first sleep), and the list never grows beyond one sample.
C7_AtMostOne ==
    \A s \in ServiceSet :
        ImmediateStop(s) => Len(returned[s].samples) <= 1 /\ Len(mon[s].metrics) <= 1

C7_Witness == \E s \in ServiceSet : ImmediateStop(s) /\ Len(returned[s].samples) = 1

\* ---- C8
\* ceil(a / b) for naturals
CeilDiv(a, b) == (a + b - 1) \div b
StatSorted == Sorted(statIn)
StatLen == Len(statIn)

\* C8 as stated: p95 is the element of rank ceil(0.95 N) for N > 20, p99 the
\* element of rank ceil(0.99 N) for N > 100, the maximum otherwise; p99 of
\* 1..150 is 149.
C8_Claim ==
    (statOut.computed /\ StatLen > 0) =>
        /\ RatEq(statOut.summary.p95_latency_ms,
                 IF StatLen > 20 THEN Rat(StatSorted[CeilDiv(95 * StatLen, 100)], 1)
                 ELSE Rat(StatSorted[StatLen], 1))
        /\ RatEq(statOut.summary.p99_latency_ms,
                 IF StatLen > 100 THEN Rat(StatSorted[CeilDiv(99 * StatLen, 100)], 1)
                 ELSE Rat(StatSorted[StatLen], 1))
        /\ \A t \in statOut.tasks :
             RatEq(t.p95_ms,
                   IF StatLen > 20 THEN Rat(StatSorted[CeilDiv(95 * StatLen, 100)], 1)
                   ELSE Rat(StatSorted[StatLen], 1))
        /\ statIn = Iota(100) => RatEq(statOut.summary.p99_latency_ms, Rat(100, 1))
        /\ statIn = Iota(150) => RatEq(statOut.summary.p99_latency_ms, Rat(149, 1))

\* the value at position q/n of the sorted list as the code takes it for
\* N above the threshold: between the elements of ranks j and j+1,
\* j = floor(q (N+1) / n) kept within 1..N-1, weighted by the remainder
Interpolated(q, n) ==
    LET h == q * (StatLen + 1)
        j0 == h \div n
        j == IF j0 < 1 THEN 1 ELSE IF j0 > StatLen - 1 THEN StatLen - 1 ELSE j0
    IN  Rat(StatSorted[j] * (n - (h - j * n)) + StatSorted[j + 1] * (h - j * n), n)

\* C8 amended: p95 (of the latencies and of each phase) is the maximum for
\* N <= 20 and the interpolated value at 19/20 for N > 20; p99 is the maximum
\* for N <= 100 and the interpolated value at 99/100 for N > 100; p99 of
\* 1..100 is 100, p99 of 1..150 is 149.49.
C8_Percentiles ==
    (statOut.computed /\ StatLen > 0) =>
        /\ RatEq(statOut.summary.p95_latency_ms,
                 IF StatLen > 20 THEN Interpolated(19, 20)
                 ELSE Rat(StatSorted[StatLen], 1))
        /\ RatEq(statOut.summary.p99_latency_ms,
                 IF StatLen > 100 THEN Interpolated(99, 100)
                 ELSE Rat(StatSorted[StatLen], 1))
        /\ Cardinality(statOut.tasks) = 1
        /\ \A t \in statOut.tasks :
             RatEq(t.p95_ms,
                   IF StatLen > 20 THEN Interpolated(19, 20)
                   ELSE Rat(StatSorted[StatLen], 1))
        /\ statIn = Iota(100) => RatEq(statOut.summary.p99_latency_ms, Rat(100, 1))
        /\ statIn = Iota(150) => RatEq(statOut.summary.p99_latency_ms, Rat(14949, 100))

C8_Witness == statOut.computed /\ statIn = Iota(150)

\* ---- C9
\* both services produced the same statistics and the same resource samples
\* (the sample lists as they were read at line 381, and no sample was added to
\* them while the resource statistics were computed)
SelfComparison ==
    /\ report.computed
    /\ report.resources =>
          /\ ResourceMetricsOf("python") = report.python_samples
          /\ ResourceMetricsOf("rust") = report.rust_samples
    /\ results["python"].latency = results["rust"].latency
    /\ results["python"].successful_requests = results["rust"].successful_requests
    /\ results["python"].errors = results["rust"].errors
    /\ results["python"].total_time_seconds = results["rust"].total_time_seconds
    /\ report.python_samples = report.rust_samples

One == Rat(1, 1)

\* C9 as stated: comparing a run against itself gives every computed ratio 1.0.
C9_Claim ==
    (pc = "save" /\ SelfComparison) =>
        /\ RatEq(report.avg_improvement, One)
        /\ RatEq(report.p50_improvement, One)
        /\ RatEq(report.p95_improvement, One)
        /\ report.resources =>
             RatEq(report.cpu_improvement, One) /\ RatEq(report.memory_improvement, One)

\* 1.0 for a positive metric, 0 for a metric that is 0
UnitOrZero(metric) == IF RatPos(metric) THEN One ELSE Zero

\* C9 amended: comparing a run against itself gives ratio 1.0 for every metric
\* that is greater than 0 and ratio 0 for every metric that is 0.
C9_SelfRatios ==
    (pc = "save" /\ SelfComparison) =>
        LET l == results["rust"].latency
            rm == report.rust_samples
        IN  /\ RatEq(report.avg_improvement, UnitOrZero(l.avg_latency_ms))
            /\ RatEq(report.p50_improvement, UnitOrZero(l.p50_latency_ms))
            /\ RatEq(report.p95_improvement, UnitOrZero(l.p95_latency_ms))
            /\ report.resources =>
                 /\ RatEq(report.cpu_improvement, UnitOrZero(Rat(SumSeq(CpuOf(rm)), 1)))
                 /\ RatEq(report.memory_improvement, UnitOrZero(SumFloats(MemOf(rm))))

C9_Witness ==
    /\ pc = "save"
    /\ SelfComparison
    /\ report.resources
    /\ RatPos(results["rust"].latency.avg_latency_ms)

\* ---- C10
\* C10: when writing the artifact fails, run_comparison_benchmark still
\* completes normally with the comparison it computed.
C10_Claim == artifact.state = "failed" => pc = "done" /\ report.computed

\* ---- C11
\* C11: a dispatch in which no attempt succeeded has returned with avg, p50,
\* p95, p99, min and max latency 0 and throughput 0, with no latency and no
\* per-phase statistic computed.
C11_ZeroSuccessDefaults ==
    \A s \in ServiceSet :
        (results[s] # NoResult /\ results[s].errors = results[s].total_requests) =>
            /\ results[s].successful_requests = 0
            /\ results[s].latency =
                  [avg_latency_ms |-> Zero, p50_latency_ms |-> Zero,
                   p95_latency_ms |-> Zero, p99_latency_ms |-> Zero,
                   max_latency_ms |-> 0, min_latency_ms |-> 0]
            /\ results[s].throughput_rps.n = 0
            /\ results[s].throughput_rps.d > 0
            /\ results[s].raw_latencies = <<>>
            /\ results[s].task_statistics = {}

C11_Witness ==
    /\ pc = "stop"
    /\ cfg.num_requests = 2
    /\ results[Svc].errors = 2
    /\ results[Svc].successful_requests = 0
    /\ results[Svc].total_time_seconds = 1

\* ---- C12
\* C12: once stop_monitoring has returned the samples of a service, the list
\* the caller holds stays what was returned: no later step of the sampler
\* thread changes it, and the samples summarised in the comparison and
\* written to the artifact are the returned ones.
C12_Claim ==
    \A s \in ServiceSet :
        returned[s].done =>
            /\ ResourceMetricsOf(s) = returned[s].samples
            /\ report.computed =>
                 (IF s = "python" THEN report.python_samples ELSE report.rust_samples)
                    = returned[s].samples
            /\ artifact.state = "written" =>
                 (IF s = "python" THEN artifact.python_resource_metrics
                  ELSE artifact.rust_resource_metrics) = returned[s].samples

\* ---- C13
\* the processes of the tick's table that could be inspected and whose name
\* contains one of the monitor's substrings
MatchingReadable ==
    SelectSeq(tickIn.table,
              LAMBDA p : /\ p.fault = "none"
                         /\ p.name # None
                         /\ NameMatches(Filters(tickIn.svc), p.name[1]))

\* the sample that sums the processes ps
SampleOf(ps) ==
    [cpu_percent |-> SumSeq([k \in 1..Len(ps) |-> OrZero(ps[k].cpu)]),
     memory_mb |-> SumFloats([k \in 1..Len(ps) |-> Norm(Rat(ps[k].rss, MiB))]),
     threads |-> SumSeq([k \in 1..Len(ps) |-> OrZero(ps[k].threads)])]

\* some process of the table raised NoSuchProcess or AccessDenied
HasFault == \E k \in 1..Len(tickIn.table) : tickIn.table[k].fault # "none"

\* the tick meets an unexpected error: a readable process without a name
TickFails ==
    \E k \in 1..Len(tickIn.table) :
        tickIn.table[k].fault = "none" /\ tickIn.table[k].name = None

\* C13: in a tick where a process fails with NoSuchProcess or AccessDenied
\* (and nothing else goes wrong), only that process is left out: the tick
\* appends the sample of the matching processes that could be read, and the
\* loop goes on to its sleep with the flag still set.
C13_FaultSwallowed ==
    (tickOut.done /\ HasFault /\ ~TickFails) =>
        LET m == mon[tickIn.svc] IN
        /\ m.thread = "sleep"
        /\ m.sleepLeft = Interval
        /\ m.monitoring
        /\ tickOut.log = <<>>
        /\ m.metrics = IF Len(MatchingReadable) > 0
                       THEN Append(tickIn.before, SampleOf(MatchingReadable))
                       ELSE tickIn.before

C13_Witness ==
    /\ tickOut.done
    /\ Len(tickIn.table) = 3
    /\ tickIn.table[1].fault = "AccessDenied"
    /\ Len(MatchingReadable) = 2
    /\ mon[tickIn.svc].thread = "sleep"
    /\ Len(mon[tickIn.svc].metrics) = Len(tickIn.before) + 1

\* ---- C14
\* C14 as stated: a tick appends a sample if and only if it found a matching
\* process, and the sample is the sum over the matching processes.
C14_Claim ==
    tickOut.done =>
        mon[tickIn.svc].metrics =
            IF Len(MatchingReadable) > 0
            THEN Append(tickIn.before, SampleOf(MatchingReadable))
            ELSE tickIn.before

\* C14 amended: a tick that is not ended by an unexpected error appends a
\* sample if and only if it found a matching process that could be read, and
\* the sample is the sum over exactly those processes; a tick with no such
\* process leaves the list unchanged, and so does a tick ended by an
\* unexpected error, which ends the loop.
C14_TickAppends ==
    tickOut.done =>
        /\ mon[tickIn.svc].metrics =
              IF ~TickFails /\ Len(MatchingReadable) > 0
              THEN Append(tickIn.before, SampleOf(MatchingReadable))
              ELSE tickIn.before
        /\ TickFails <=> mon[tickIn.svc].thread = "exited"

C14_Witness ==
    /\ tickOut.done
    /\ ~TickFails
    /\ Len(tickIn.table) = 3
    /\ Len(MatchingReadable) = 2
    /\ tickIn.before # <<>>
    /\ mon[tickIn.svc].metrics[2] = [cpu_percent |-> 4, memory_mb |-> Rat(5, 2), threads |-> 2]

\* ---- C15
\* the statistics of a dispatch other than its elapsed time and throughput
StatsOf(r) ==
    [total_requests |-> r.total_requests,
     successful_requests |-> r.successful_requests,
     errors |-> r.errors,
     error_rate |-> r.error_rate,
     latency |-> r.latency,
     task_statistics |-> r.task_statistics]

\* C15: two dispatches whose attempts have the same outcomes, gathered in
\* different orders (or in the same order twice), return the same counts,
\* error rate, latency summary and per-phase statistics.
C15_OrderIndependent ==
    (aggOut["a"].computed /\ aggOut["b"].computed) =>
        StatsOf(aggOut["a"].result) = StatsOf(aggOut["b"].result)

C15_Witness ==
    /\ aggOut["a"].computed
    /\ aggOut["b"].computed
    /\ aggIn.a # aggIn.b
    /\ aggOut["a"].result.successful_requests = 3
    /\ aggOut["a"].result.latency.p50_latency_ms = Rat(2 * MsPerSecond, 1)
    /\ aggIn.b[1].kind = "ok" /\ aggIn.b[1].latency = 3 * MsPerSecond

\* ---- C16
\* the positions of the successful results of rs whose response times phase ph
WithPhase(rs, ph) ==
    { k \in 1..Len(rs) : rs[k].kind = "ok" /\ \E pr \in rs[k].response : pr[1] = ph }

\* the j-th smallest element of the set of positions ks
Nth(ks, j) == CHOOSE k \in ks : Cardinality({ i \in ks : i <= k }) = j

DurationAt(rs, k, ph) == (CHOOSE pr \in rs[k].response : pr[1] = ph)[2]

\* C16: for every phase, the list of durations summarised holds one entry per
\* successful response that times the phase, namely that response's duration
\* (never a zero for a response or a failed attempt without it), and a phase
\* timed by no successful response has no list and no per-phase statistics.
C16_PhaseLists ==
    \A side \in {"a", "b"} :
        aggOut[side].computed =>
            \A ph \in PhaseNames :
                LET ks == WithPhase(aggIn[side], ph)
                    tt == aggOut[side].task_times
                    ts == { x \in aggOut[side].result.task_statistics : x.task = ph }
                IN  IF ks = {}
                    THEN ph \notin DOMAIN tt /\ ts = {}
                    ELSE /\ ph \in DOMAIN tt
                         /\ Len(tt[ph]) = Cardinality(ks)
                         /\ \A j \in 1..Len(tt[ph]) :
                              tt[ph][j] = DurationAt(aggIn[side], Nth(ks, j), ph)
                         /\ Cardinality(ts) = 1
                         /\ \A x \in ts : x.avg_ms = Mean(tt[ph])

C16_Witness ==
    /\ aggOut["a"].computed
    /\ Len(aggIn.a) = 3
    /\ aggIn.a[1] = ResNone
    /\ DOMAIN aggOut["a"].task_times = PhaseNames
    /\ aggOut["a"].task_times["research"] = <<3, 1>>
    /\ aggOut["a"].task_times["summarize"] = <<1>>

\* ---- C17
\* the lists a statement of lines 385-391 can have read from the list of
\* service s: the list of line 381 with the samples appended to it since
ReadsOf(s) ==
    LET now == ResourceMetricsOf(s)
        first == IF s = "rust" THEN report.rust_samples ELSE report.python_samples
    IN  { SubSeq(now, 1, n) : n \in Len(first)..Len(now) }

\* q is b / a, or 0 when a is 0, and no division by zero produced it
IsRatioOf(q, b, a) ==
    /\ q.d > 0
    /\ IF a.n = 0 THEN q.n = 0 ELSE q.n * a.n * b.d = b.n * a.d * q.d

\* C17: the ratios of average, p50 and p95 latency, of average CPU and of
\* average memory are the Python metric divided by the Rust metric, and 0
\* when the Rust metric is 0; the per-task ratios are computed only between
\* positive averages; no number of the results or of the report comes from
\* a division by zero.
C17_Ratios ==
    /\ report.computed =>
         LET p == results["python"].latency
             r == results["rust"].latency
         IN  /\ IsRatioOf(report.avg_improvement, p.avg_latency_ms, r.avg_latency_ms)
             /\ IsRatioOf(report.p50_improvement, p.p50_latency_ms, r.p50_latency_ms)
             /\ IsRatioOf(report.p95_improvement, p.p95_latency_ms, r.p95_latency_ms)
             /\ report.resources =>
                  /\ IsRatioOf(report.cpu_improvement,
                               report.python_avg_cpu, report.rust_avg_cpu)
                  /\ IsRatioOf(report.memory_improvement,
                               report.python_avg_memory, report.rust_avg_memory)
                  /\ \E l \in ReadsOf("rust") :
                        RatEq(report.rust_avg_cpu, Rat(SumSeq(CpuOf(l)), Len(l)))
                  /\ \E l \in ReadsOf("python") :
                        RatEq(report.python_avg_cpu, Rat(SumSeq(CpuOf(l)), Len(l)))
                  /\ \E l \in ReadsOf("rust") :
                        RatEq(report.rust_avg_memory,
                              Rat(SumFloats(MemOf(l)).n, SumFloats(MemOf(l)).d * Len(l)))
                  /\ \E l \in ReadsOf("python") :
                        RatEq(report.python_avg_memory,
                              Rat(SumFloats(MemOf(l)).n, SumFloats(MemOf(l)).d * Len(l)))
             /\ \A x \in report.task_improvements :
                  /\ RatPos(TaskAvg(results["rust"], x.task))
                  /\ IsRatioOf(x.improvement, TaskAvg(results["python"], x.task),
                               TaskAvg(results["rust"], x.task))
    /\ \A s \in ServiceSet :
         results[s] # NoResult =>
            /\ results[s].error_rate.d > 0
            /\ results[s].throughput_rps.d > 0
            /\ results[s].latency.avg_latency_ms.d > 0
            /\ results[s].latency.p50_latency_ms.d > 0
            /\ \A x \in results[s].task_statistics : x.avg_ms.d > 0

C17_Witness ==
    /\ report.computed
    /\ report.resources
    /\ SumSeq(CpuOf(report.rust_samples)) = 0
    /\ SumSeq(CpuOf(report.python_samples)) > 0
    /\ report.cpu_improvement = Zero
    /\ RatEq(report.memory_improvement, Rat(3, 2))
    /\ RatEq(report.avg_improvement, One)
    /\ report.task_improvements # {}

\* ---- C18
\* C18 as stated: a sampler stopped after T seconds of interval I, with a
\* matching process always present (and its thread never delayed), returns
\* between floor(T/I) and ceil(T/I) samples.
C18_Claim ==
    (pc = "stopped" /\ samp.prompt) =>
        /\ Len(returned[Svc].samples) >= samp.duration \div samp.interval
        /\ Len(returned[Svc].samples) <= CeilDiv(samp.duration, samp.interval)

\* C18 amended: the loop samples before its first sleep, so a sampler stopped
\* after T seconds of interval I returns at most floor(T/I) + 1 samples, and
\* its list never holds more; with a matching process always present and a
\* thread that is never delayed it returns at least ceil(T/I) samples.
C18_SampleCount ==
    /\ Len(mon[Svc].metrics) <= dtime \div samp.interval + 1
    /\ pc = "stopped" =>
         /\ Len(returned[Svc].samples) <= samp.duration \div samp.interval + 1
         /\ samp.prompt =>
              Len(returned[Svc].samples) >= CeilDiv(samp.duration, samp.interval)

C18_Witness ==
    /\ pc = "stopped"
    /\ samp.prompt
    /\ samp.duration = 4
    /\ samp.interval = 2
    /\ Len(returned[Svc].samples) = 3

\* ---- C19
\* the tick reached a process that raised NoSuchProcess or AccessDenied
FaultMet ==
    \E k \in 1..Len(tickIn.table) :
        /\ tickIn.table[k].fault # "none"
        /\ \A j \in 1..(k - 1) :
             ~(tickIn.table[j].fault = "none" /\ tickIn.table[j].name = None)

\* C19 for the sampler: a tick in which the inspection of a process failed,
\* or which failed as a whole, has printed a line (the sampler keeps no error
\* counter).
C19_Claim ==
    (tickOut.done /\ (FaultMet \/ TickFails)) => tickOut.log # <<>>

\* ---- C20
\* the middle of the sorted list: its middle element for odd N, the average
\* of its two middle elements for even N
Middle ==
    IF StatLen % 2 = 1
    THEN Rat(StatSorted[(StatLen + 1) \div 2], 1)
    ELSE Rat(StatSorted[StatLen \div 2] + StatSorted[StatLen \div 2 + 1], 2)

\* C20: for a non-empty list the reported p50, of the latencies and of a
\* phase, is the middle of the sorted list, so at most half of the values lie
\* below it and at most half above; p50 of [10,20,30,40] is 25 and p50 of
\* [10,20,30] is 20.
C20_Median ==
    (statOut.computed /\ StatLen > 0) =>
        LET m == statOut.summary.p50_latency_ms IN
        /\ RatEq(m, Middle)
        /\ 2 * Cardinality({ k \in 1..StatLen : statIn[k] * m.d < m.n }) <= StatLen
        /\ 2 * Cardinality({ k \in 1..StatLen : statIn[k] * m.d > m.n }) <= StatLen
        /\ Cardinality(statOut.tasks) = 1
        /\ \A x \in statOut.tasks : RatEq(x.p50_ms, Middle)
        /\ statIn \in {<<10, 20, 30, 40>>, <<30, 10, 40, 20>>} => RatEq(m, Rat(25, 1))
        /\ statIn \in {<<10, 20, 30>>, <<20, 30, 10>>} => RatEq(m, Rat(20, 1))

C20_Witness ==
    /\ statOut.computed
    /\ statIn = <<30, 10, 40, 20>>
    /\ statOut.summary.p50_latency_ms = Rat(50, 2)

\* ---- C21
\* C21: the throughput of a dispatch is successful_requests divided by its
\* duration, and 0 when the duration is 0; the duration is the time from the
\* start of the dispatch to a moment at which every attempt has finished, so
\* it covers the latency of every attempt.
C21_Throughput ==
    /\ \A s \in ServiceSet :
         results[s] # NoResult =>
            LET r == results[s] IN
            /\ r.throughput_rps.d > 0
            /\ IF r.total_time_seconds > 0
               THEN r.throughput_rps.n * r.total_time_seconds
                       = r.successful_requests * r.throughput_rps.d
               ELSE r.throughput_rps.n = 0
            /\ \A k \in 1..Len(r.raw_latencies) :
                 r.raw_latencies[k] <= r.total_time_seconds * MsPerSecond
    /\ pc \in {"stop", "join"} =>
         /\ \A i \in DOMAIN att : att[i].st = "done"
         /\ results[Svc].total_time_seconds = dtime

C21_Witness ==
    /\ pc = "stop"
    /\ results[Svc].successful_requests = 2
    /\ results[Svc].total_time_seconds = 1
    /\ results[Svc].throughput_rps = Rat(2, 1)

\* ---- C22
\* C22: when every attempt that was sent ends, an attempt that waits at the
\* gate is eventually admitted, and a dispatch that has started eventually
\* returns its result.
C22_EventuallyAdmitted ==
    /\ \A i \in 1..MaxRequests :
         (pc = "gather" /\ i \in DOMAIN att /\ att[i].st = "waiting")
            ~> (i \in DOMAIN att /\ att[i].st # "waiting" /\ att[i].sends = 1)
    /\ (pc = "gather") ~> (pc = "stop" /\ results[Svc] # NoResult)

C22_Witness ==
    /\ pc = "stop"
    /\ cfg.num_requests = 2
    /\ cfg.max_workers = 1
    /\ \A i \in DOMAIN att : att[i].sends = 1 /\ att[i].st = "done"
    /\ results[Svc].total_requests = 2

\* ---- C23
\* C23: once stop_monitoring has cleared the flag, the loop thread begins no
\* tick (it only finishes one it is already in), a step appends at most one
\* sample and only as the end of that tick, the thread eventually exits, and
\* an exited thread never changes the monitor again.
FlagCleared == mon[Svc].thread # "none" /\ ~mon[Svc].monitoring

C23_StopsSampling ==
    /\ [][FlagCleared =>
            /\ mon'[Svc].thread = "tick" => mon[Svc].thread = "tick"
            /\ mon'[Svc].metrics # mon[Svc].metrics =>
                  /\ mon[Svc].thread = "tick"
                  /\ mon'[Svc].thread # "tick"
                  /\ Len(mon'[Svc].metrics) = Len(mon[Svc].metrics) + 1
            /\ mon[Svc].thread = "exited" => mon'[Svc] = mon[Svc]]_vars
    /\ FlagCleared ~> (mon[Svc].thread = "exited")

C23_Witness ==
    /\ pc = "stopped"
    /\ FlagCleared
    /\ mon[Svc].thread = "exited"
    /\ returned[Svc].done
    /\ Len(mon[Svc].metrics) = Len(returned[Svc].samples) + 1

\* ---- C24
\* C24: while a dispatch runs, the attempts in flight and the free slots of
\* the gate add up to max_workers, and when it has returned every slot is
\* free again, whatever the outcomes of the attempts were.
C24_SlotsConserved ==
    /\ pc = "gather" =>
          /\ sem >= 0
          /\ sem + Cardinality(InFlight) = cfg.max_workers
    /\ pc \in {"stop", "join"} => sem = cfg.max_workers /\ InFlight = {}

C24_Witness ==
    /\ pc = "gather"
    /\ cfg.max_workers = 2
    /\ sem = 1
    /\ \E i, j \in DOMAIN att :
         /\ att[i].st = "done" /\ att[i].res = ResNone
         /\ att[j].st = "inflight"

\* ---- C25
\* C25: the timer of an attempt shows nothing while the attempt waits at the
\* gate and zero at the moment it is admitted; an attempt that ends records
\* either the time since its admission as its latency (success) or no latency
\* (failure); so the latencies of a dispatch add up to at most max_workers
\* times its duration.
C25_TimerAfterGate ==
    /\ [][pc = "gather" /\ pc' = "gather" =>
            \A i \in DOMAIN att :
               /\ att[i].st = "waiting" => att'[i].age = 0
               /\ att[i].st = "inflight" /\ att'[i].st # "inflight" =>
                     \/ att'[i].res = ResNone
                     \/ /\ att'[i].res.kind = "ok"
                        /\ att'[i].res.latency = att[i].age * MsPerSecond
               /\ att[i].st = "closing" => att'[i].res = att[i].res]_vars
    /\ [](\A s \in ServiceSet :
            results[s] # NoResult =>
               /\ Len(results[s].raw_latencies) = results[s].successful_requests
               /\ SumSeq(results[s].raw_latencies)
                     <= cfg.max_workers * results[s].total_time_seconds * MsPerSecond)

C25_Witness ==
    /\ pc = "stop"
    /\ cfg.max_workers = 1
    /\ results[Svc].total_time_seconds = 1
    /\ results[Svc].raw_latencies = <<MsPerSecond, 0>>

\* ---- C26
\* C26: the resource maxima and ratios are computed exactly when monitoring
\* is enabled and both sample lists are non-empty; with monitoring disabled
\* no monitor exists and no sampler thread is started; the comparison never
\* raises (only the write of the artifact can), and a written artifact holds
\* the samples that were collected up to the moment its lists were copied
\* (at least the returned ones, at most those of the list at the end), the
\* empty list where there are none.
IsPrefix(a, b) == Len(a) <= Len(b) /\ SubSeq(b, 1, Len(a)) = a

C26_ResourcesGuarded ==
    /\ ~cfg.monitor_resources =>
          \A s \in ServiceSet :
             ~mon[s].exists /\ mon[s].thread = "none" /\ mon[s].metrics = <<>>
    /\ report # NoReport =>
          report.resources <=>
                /\ cfg.monitor_resources
                /\ report.rust_samples # <<>>
                /\ report.python_samples # <<>>
    /\ report.computed =>
          /\ report.resources <=>
                /\ cfg.monitor_resources
                /\ report.rust_samples # <<>>
                /\ report.python_samples # <<>>
          /\ ~cfg.monitor_resources =>
                report.rust_samples = <<>> /\ report.python_samples = <<>>
          /\ IF report.resources
             THEN /\ report.rust_max_memory \in Range(MemOf(ResourceMetricsOf("rust")))
                  /\ report.python_max_memory \in Range(MemOf(ResourceMetricsOf("python")))
             ELSE /\ report.rust_max_memory = Zero
                  /\ report.python_max_memory = Zero
                  /\ report.cpu_improvement = Zero
                  /\ report.memory_improvement = Zero
    /\ pc = "raised" => report.computed /\ artifact = [state |-> "failed"]
    /\ pc = "done" =>
          /\ artifact.state = "written"
          /\ IsPrefix(returned["rust"].samples, artifact.rust_resource_metrics)
          /\ IsPrefix(artifact.rust_resource_metrics, ResourceMetricsOf("rust"))
          /\ IsPrefix(returned["python"].samples, artifact.python_resource_metrics)
          /\ IsPrefix(artifact.python_resource_metrics, ResourceMetricsOf("python"))
          /\ ~cfg.monitor_resources =>
                /\ artifact.rust_resource_metrics = <<>>
                /\ artifact.python_resource_metrics = <<>>

C26_Witness ==
    /\ pc = "done"
    /\ cfg.monitor_resources
    /\ ~report.resources
    /\ artifact.state = "written"
    /\ artifact.python_resource_metrics = <<>>
    /\ artifact.rust_resource_metrics # <<>>

\* ---- C27
\* C27: the phases that have run are always a beginning of extract_questions,
\* research, summarize, generate_report; a 200 response has run all four and
\* its task_times has exactly these four keys; once a phase has raised no
\* phase runs any more, the response is a 500, and the dispatcher counts it as
\* one error and keeps no response.
PhaseOrder == <<"extract_questions", "research", "summarize", "generate_report">>

C27_PhasesInOrder ==
    /\ [](wf # NoFlow =>
            /\ Len(wf.ran) <= Len(PhaseOrder)
            /\ \A k \in 1..Len(wf.ran) : wf.ran[k] = PhaseOrder[k]
            /\ Keys(wf.task_times) = Range(wf.ran)
            /\ wf.status = 200 =>
                  /\ wf.ran = PhaseOrder
                  /\ Keys(wf.body) = PhaseNames
                  /\ Cardinality(wf.body) = 4
            /\ wf.raised # "none" =>
                  /\ wf.status \in {0, 500}
                  /\ Len(wf.ran) < Len(PhaseOrder)
                  /\ wf.raised = PhaseOrder[Len(wf.ran) + 1]
            /\ wf.at \in {"responded", "counted"} =>
                  (wf.status = 500 <=> wf.raised # "none")
            /\ wf.at = "counted" =>
                  IF wf.status = 500
                  THEN wf.errors = 1 /\ wf.responses = <<>>
                  ELSE wf.errors = 0 /\ wf.responses = <<wf.body>>)
    /\ [][wf # NoFlow /\ wf.raised # "none" =>
            wf'.ran = wf.ran /\ wf'.raised = wf.raised]_vars

C27_Witness ==
    /\ wf # NoFlow
    /\ wf.at = "counted"
    /\ wf.raised = "summarize"
    /\ wf.ran = <<"extract_questions", "research">>
    /\ wf.status = 500
    /\ wf.errors = 1

====
